---- MODULE Spec2Model ----
(***************************************************************************)
(* The gamescope input-method handler (src/src/ime.cpp) as a state machine.*)
(* One action per protocol request handler and per timer callback; the     *)
(* helpers (UTF-8 decoder, keysym resolver, keycode allocator, keymap      *)
(* synthesizer, direct-type search) are operators computed as the code     *)
(* computes them.                                                          *)
(***************************************************************************)
EXTENDS Integers, Sequences, FiniteSets, TLC

(***************************************************************************)
(* Bounds of the model.                                                    *)
(***************************************************************************)
\* SpecClients: the number of object ids clients use for input methods
MaxHandles == 2
\* Spec, SpecClients: no commit runs that would leave next_keycode_index above this
MaxCursor == 2
\* SpecAlloc: no allocation runs with next_keycode_index at or above this
MaxAllocCursor == 52
\* the granularity of the clock, in milliseconds
TickMs == 50
\* the largest cursor value in the runs with a text longer than the catalog
MaxLongCursor == 49

(***************************************************************************)
(* Program constants.                                                      *)
(***************************************************************************)
UTF8_INVALID == 65533
IME_RESET_DELAY_MS == 100
KEYBOARD_RESET_DELAY_MS == 100
keycode_offset == 8

XKB_KEY_NoSymbol == 0
\* 0xffffffff; written as the 32-bit two's complement value of that pattern
XKB_KEYCODE_INVALID == -1
XKB_KEY_EuroSign == 8364
XKB_KEY_Return == 65293
XKB_KEY_BackSpace == 65288
XKB_KEY_Delete == 65535
XKB_KEY_Left == 65361
XKB_KEY_Right == 65363

KEY_ENTER == 28
KEY_BACKSPACE == 14
KEY_DELETE == 111
KEY_LEFT == 105
KEY_RIGHT == 106
KEY_LEFTSHIFT == 42
KEY_LEFTCTRL == 29
KEY_LEFTALT == 56

GAMESCOPE_INPUT_METHOD_ACTION_NONE == 0
GAMESCOPE_INPUT_METHOD_ACTION_SUBMIT == 1
GAMESCOPE_INPUT_METHOD_ACTION_DELETE_LEFT == 2
GAMESCOPE_INPUT_METHOD_ACTION_DELETE_RIGHT == 3
GAMESCOPE_INPUT_METHOD_ACTION_MOVE_LEFT == 4
GAMESCOPE_INPUT_METHOD_ACTION_MOVE_RIGHT == 5

\* KEY_1..KEY_EQUAL, KEY_Q..KEY_RIGHTBRACE, KEY_A..KEY_GRAVE, KEY_BACKSLASH,
\* KEY_Z..KEY_SLASH, as <linux/input-event-codes.h> numbers them
allow_keycodes ==
    << 2, 3, 4, 5, 6, 7, 8, 9, 10, 11, 12, 13,
       16, 17, 18, 19, 20, 21, 22, 23, 24, 25, 26, 27,
       30, 31, 32, 33, 34, 35, 36, 37, 38, 39, 40, 41, 43,
       44, 45, 46, 47, 48, 49, 50, 51, 52, 53 >>

allow_keycodes_len == Len(allow_keycodes)

\* the action table: action |-> (keycode, keysym)
actions ==
    [a \in { GAMESCOPE_INPUT_METHOD_ACTION_SUBMIT,
             GAMESCOPE_INPUT_METHOD_ACTION_DELETE_LEFT,
             GAMESCOPE_INPUT_METHOD_ACTION_DELETE_RIGHT,
             GAMESCOPE_INPUT_METHOD_ACTION_MOVE_LEFT,
             GAMESCOPE_INPUT_METHOD_ACTION_MOVE_RIGHT } |->
        CASE a = GAMESCOPE_INPUT_METHOD_ACTION_SUBMIT ->
                 [keycode |-> KEY_ENTER, keysym |-> XKB_KEY_Return]
          [] a = GAMESCOPE_INPUT_METHOD_ACTION_DELETE_LEFT ->
                 [keycode |-> KEY_BACKSPACE, keysym |-> XKB_KEY_BackSpace]
          [] a = GAMESCOPE_INPUT_METHOD_ACTION_DELETE_RIGHT ->
                 [keycode |-> KEY_DELETE, keysym |-> XKB_KEY_Delete]
          [] a = GAMESCOPE_INPUT_METHOD_ACTION_MOVE_LEFT ->
                 [keycode |-> KEY_LEFT, keysym |-> XKB_KEY_Left]
          [] OTHER ->
                 [keycode |-> KEY_RIGHT, keysym |-> XKB_KEY_Right]]

\* the modifier bits the direct-type search accepts
AllowedMods == {"shift", "ctrl", "alt"}

(***************************************************************************)
(* Codepoint decoder.  A C string is the sequence of its bytes before the  *)
(* terminator; ByteAt reads the terminator at Len(str) + 1.                *)
(***************************************************************************)
ByteAt(str, i) == IF i <= Len(str) THEN str[i] ELSE 0

\* size by the leading byte: (u8 & 0x80) == 0, (u8 & 0xE0) == 0xC0, ...
utf8_size(str, i) ==
    LET u8 == ByteAt(str, i) IN
    IF u8 = 0 THEN 0
    ELSE IF u8 \div 128 = 0 THEN 1
    ELSE IF u8 \div 32 = 6 THEN 2
    ELSE IF u8 \div 16 = 14 THEN 3
    ELSE IF u8 \div 8 = 30 THEN 4
    ELSE 0

\* masks[size - 1]: 0x7F, 0x1F, 0x0F, 0x07
Utf8Mask(size) == CASE size = 1 -> 128 [] size = 2 -> 32 [] size = 3 -> 16 [] OTHER -> 8

RECURSIVE Utf8Fold(_, _, _, _, _)
\* ret <<= 6; ret |= str[i] & 0x3F, for the continuation bytes k..size-1
\* (at most 21 bits are ever set, so the 32-bit width is never reached)
Utf8Fold(str, i, k, size, ret) ==
    IF k >= size THEN ret
    ELSE Utf8Fold(str, i, k + 1, size, ret * 64 + (ByteAt(str, i + k) % 64))

\* the scalar value at position i and the position after it
utf8_decode(str, i) ==
    LET size == utf8_size(str, i) IN
    IF size = 0
    THEN [ch |-> UTF8_INVALID, next |-> i + 1]
    ELSE [ch |-> Utf8Fold(str, i, 1, size, ByteAt(str, i) % Utf8Mask(size)),
          next |-> i + size]

(***************************************************************************)
(* Keysym resolver.                                                        *)
(***************************************************************************)
\* libxkbcommon's table: Latin-1 maps to itself, a few control characters
\* to function keysyms, non-characters and out-of-range values to no
\* symbol, the rest to the direct Unicode encoding
xkb_utf32_to_keysym(ucs) ==
    IF (ucs >= 32 /\ ucs <= 126) \/ (ucs >= 160 /\ ucs <= 255) THEN ucs
    ELSE IF (ucs >= 8 /\ ucs <= 11) \/ ucs = 13 \/ ucs = 27 THEN ucs + 65280
    ELSE IF ucs = 127 THEN XKB_KEY_Delete
    ELSE IF (ucs >= 55296 /\ ucs <= 57343) \/ (ucs >= 64976 /\ ucs <= 65007)
            \/ ucs > 1114111 \/ (ucs % 65536) \div 2 = 32767
         THEN XKB_KEY_NoSymbol
    ELSE ucs + 16777216

keysym_from_ch(ch) ==
    IF ch = 8364 THEN XKB_KEY_EuroSign ELSE xkb_utf32_to_keysym(ch)

(***************************************************************************)
(* State.                                                                  *)
(***************************************************************************)
VARIABLES
    resources,            \* the ids of the input-method resources that exist
    sessions,             \* resource id |-> its wlserver_input_method (user data)
    active_input_method,  \* the id whose session is registered, 0 for nullptr
    stale_timers,         \* armed idle-reset timers whose session was deleted
    reset_keyboard_timer, \* the manager's timer: ms left, -1 when not armed
    seat_keyboard,        \* the seat's active keyboard device
    crashed,              \* the process died on a null or dangling dereference
    log,                  \* what the last handler did on the seat and the wire
    last                  \* which handler ran last, and with what input

vars == << resources, sessions, active_input_method, stale_timers,
           reset_keyboard_timer, seat_keyboard, crashed, log, last >>

Handles == 1 .. MaxHandles

\* an optional value: nullptr is the empty sequence
Null == << >>
Some(x) == << x >>

\* effects a handler has on its collaborators, in the order it makes them
Key(code, st) == [op |-> "key", code |-> code, state |-> st]
Modifiers(m) == [op |-> "modifiers", mods |-> m]
SetKeyboard(dev) == [op |-> "set_keyboard", dev |-> dev]
SetKeymap(km) == [op |-> "set_keymap", keymap |-> km]
TimerUpdate(which, ms) == [op |-> "timer_update", timer |-> which, ms |-> ms]
Send(what, serial) == [op |-> "send", event |-> what, serial |-> serial]
\* bookkeeping entries: a direct-type search and a keycode allocation
Tried(keysym, found) == [op |-> "try_type_keysym", keysym |-> keysym, found |-> found]
Allocated(keysym, keycode) == [op |-> "keycode_from_ch", keysym |-> keysym, keycode |-> keycode]

(***************************************************************************)
(* Keycode allocator.                                                      *)
(***************************************************************************)
\* repeated chars can re-use keycode
ReusesBack(keys, keysym) == keys # << >> /\ keys[Len(keys)].keysym = keysym

\* faulty variant of EvictIfFull: pop_back instead of pop_front
EvictNewestIfFull(keys) ==
    IF Len(keys) >= allow_keycodes_len THEN SubSeq(keys, 1, Len(keys) - 1) ELSE keys

\* the queue after the capacity check: pop_front when it is full
EvictIfFull(keys) == IF Len(keys) >= allow_keycodes_len THEN Tail(keys) ELSE keys

\* faulty variant of CatalogKeycode: the cursor wraps one entry too early
CatalogKeycodeShort(index) == allow_keycodes[(index % (allow_keycodes_len - 1)) + 1]

\* allow_keycodes[index % allow_keycodes_len]
CatalogKeycode(index) == allow_keycodes[(index % allow_keycodes_len) + 1]

\* push_back of the new pair, the cursor moved on
PushKey(ime, keycode, keysym) ==
    [ime |-> [ime EXCEPT
                !.keys = Append(EvictIfFull(ime.keys),
                                [keycode |-> keycode, keysym |-> keysym]),
                !.next_keycode_index = @ + 1],
     keycode |-> keycode, keysym |-> keysym]

\* keycode_from_ch once the keysym is resolved
KeycodeFromKeysym(ime, keysym) ==
    IF keysym = XKB_KEY_NoSymbol
    THEN [ime |-> ime, keycode |-> XKB_KEYCODE_INVALID, keysym |-> keysym]
    ELSE IF ReusesBack(ime.keys, keysym)
    THEN [ime |-> ime, keycode |-> ime.keys[Len(ime.keys)].keycode, keysym |-> keysym]
    ELSE PushKey(ime, CatalogKeycode(ime.next_keycode_index), keysym)

\* next_keycode_index is a uint32_t; the bounds keep it far below 2^32
keycode_from_ch(ime, ch) == KeycodeFromKeysym(ime, keysym_from_ch(ch))

(***************************************************************************)
(* Keymap synthesizer.                                                     *)
(***************************************************************************)
\* xkb_keysym_get_name names every keysym up to XKB_KEYSYM_MAX (0x1fffffff)
generate_keymap_key(keycode, keysym) ==
    [ok |-> keysym >= 0 /\ keysym <= 536870911,
     line |-> [keycode |-> keycode, keysym |-> keysym]]

\* the order in which the action table is walked
ActionOrder ==
    << GAMESCOPE_INPUT_METHOD_ACTION_SUBMIT,
       GAMESCOPE_INPUT_METHOD_ACTION_DELETE_LEFT,
       GAMESCOPE_INPUT_METHOD_ACTION_DELETE_RIGHT,
       GAMESCOPE_INPUT_METHOD_ACTION_MOVE_LEFT,
       GAMESCOPE_INPUT_METHOD_ACTION_MOVE_RIGHT >>

\* the (keycode, keysym) pairs the description is rendered from
KeymapEntries(keys) == keys \o [i \in 1 .. Len(ActionOrder) |-> actions[ActionOrder[i]]]

NullKeymap == [ok |-> FALSE, codes |-> << >>, symbols |-> << >>]

\* the description rendered from the entries and compiled; compiles: whether
\* the keymap compiler accepts the description
RenderKeymap(entries, compiles) ==
    IF (\E i \in 1 .. Len(entries) :
           ~generate_keymap_key(entries[i].keycode, entries[i].keysym).ok)
       \/ ~compiles
    THEN NullKeymap
    ELSE [ok |-> TRUE,
          codes |-> [i \in 1 .. Len(entries) |->
                        [name |-> entries[i].keycode,
                         code |-> entries[i].keycode + keycode_offset]],
          symbols |-> [i \in 1 .. Len(entries) |->
                          generate_keymap_key(entries[i].keycode, entries[i].keysym).line]]

generate_keymap(ime, compiles) == RenderKeymap(KeymapEntries(ime.keys), compiles)

(***************************************************************************)
(* Direct-type search over the keymap of the virtual keyboard device.      *)
(***************************************************************************)
\* The keymap installed on wlserver's virtual keyboard device, one entry per
\* (keycode, layout, level) in the order the search walks them: an AZERTY-like
\* excerpt with eacute unshifted, '!' behind AltGr, a two-symbol level, a level
\* no modifier mask selects, BackSpace twice (first behind shift, control and
\* alt, then plain), and no cursor keys.
virtual_keymap ==
    << [keycode |-> 9,  layout |-> 0, level |-> 0, syms |-> << 65, 65 >>, masks |-> << {} >>],
       [keycode |-> 10, layout |-> 0, level |-> 0, syms |-> << 49 >>, masks |-> << {} >>],
       [keycode |-> 10, layout |-> 0, level |-> 1, syms |-> << 65 >>, masks |-> << >>],
       [keycode |-> 11, layout |-> 0, level |-> 0, syms |-> << 233 >>, masks |-> << {} >>],
       [keycode |-> 11, layout |-> 0, level |-> 1, syms |-> << 50 >>, masks |-> << {"shift"} >>],
       [keycode |-> 11, layout |-> 0, level |-> 2, syms |-> << 33 >>, masks |-> << {"mod5"} >>],
       [keycode |-> 14, layout |-> 0, level |-> 1, syms |-> << XKB_KEY_BackSpace >>,
        masks |-> << {"shift", "ctrl", "alt"} >>],
       [keycode |-> 22, layout |-> 0, level |-> 0, syms |-> << XKB_KEY_BackSpace >>, masks |-> << {} >>],
       [keycode |-> 24, layout |-> 0, level |-> 0, syms |-> << 97 >>, masks |-> << {} >>],
       [keycode |-> 24, layout |-> 0, level |-> 1, syms |-> << 65 >>,
        masks |-> << {"shift"}, {"lock"} >>] >>

\* xkb_keymap_key_get_mods_for_level(.., &mask, 1): at most one mask is written
NumMasks(e) == IF Len(e.masks) >= 1 THEN 1 ELSE 0

Qualifies(e, keysym) ==
    /\ Len(e.syms) = 1
    /\ e.syms[1] = keysym
    /\ NumMasks(e) = 1
    /\ e.masks[1] \subseteq AllowedMods

\* faulty variant of DirectKeycodes: the modifier keys in the order alt,
\* control, shift
DirectKeycodesAltFirst(e) ==
    LET mask == e.masks[1] IN
       (IF "alt" \in mask THEN << KEY_LEFTALT >> ELSE << >>)
    \o (IF "ctrl" \in mask THEN << KEY_LEFTCTRL >> ELSE << >>)
    \o (IF "shift" \in mask THEN << KEY_LEFTSHIFT >> ELSE << >>)
    \o << e.keycode - 8 >>

\* keycodes[]: the modifier keys of the mask, then the target key
DirectKeycodes(e) ==
    LET mask == e.masks[1] IN
       (IF "shift" \in mask THEN << KEY_LEFTSHIFT >> ELSE << >>)
    \o (IF "ctrl" \in mask THEN << KEY_LEFTCTRL >> ELSE << >>)
    \o (IF "alt" \in mask THEN << KEY_LEFTALT >> ELSE << >>)
    \o << e.keycode - 8 >>

Reverse(q) == [i \in 1 .. Len(q) |-> q[Len(q) + 1 - i]]

\* The modifier state of a keyboard device: the managed (physical) keyboard
\* has shift held, the virtual and the emulated keyboard have nothing held.
DeviceMods(dev) == IF dev = "managed" THEN {"shift"} ELSE {}

\* A context c is what a handler works on: the session (ime), the seat's
\* active keyboard (kb) and the effects made so far (log).
Emit(c, effects) == [c EXCEPT !.log = @ \o effects]

\* faulty variant of PressRelease: every key is pressed before any is released
PressAllThenRelease(keycodes) ==
    [i \in 1 .. 2 * Len(keycodes) |->
        IF i <= Len(keycodes)
        THEN Key(keycodes[i], "pressed")
        ELSE Key(keycodes[i - Len(keycodes)], "released")]

\* press and release of each keycode, in order
PressRelease(keycodes) ==
    [i \in 1 .. 2 * Len(keycodes) |->
        Key(keycodes[(i + 1) \div 2], IF i % 2 = 1 THEN "pressed" ELSE "released")]

\* all presses in order, then all releases in reverse order
PressAllReleaseAll(keycodes) ==
    [i \in 1 .. 2 * Len(keycodes) |->
        IF i <= Len(keycodes)
        THEN Key(keycodes[i], "pressed")
        ELSE Key(keycodes[2 * Len(keycodes) + 1 - i], "released")]

\* prev_mods: the modifiers of the seat's keyboard, zero when it has none
PrevMods(kb) == IF kb = "null" THEN {} ELSE DeviceMods(kb)

\* faulty variant of DirectType: the idle-reset timer is armed as well
DirectTypeArming(c, keysym, mask, keycodes) ==
    [Emit(c, << Tried(keysym, TRUE), SetKeyboard("virtual"), Modifiers(mask) >>
             \o PressAllReleaseAll(keycodes)
             \o << Modifiers(PrevMods(c.kb)),
                   TimerUpdate("ime_reset_ime_keyboard", IME_RESET_DELAY_MS) >>)
       EXCEPT !.kb = "virtual", !.ime.timer = IME_RESET_DELAY_MS]

\* the events of an accepted (keycode, layout, level)
DirectType(c, keysym, mask, keycodes) ==
    [Emit(c, << Tried(keysym, TRUE), SetKeyboard("virtual"), Modifiers(mask) >>
             \o PressAllReleaseAll(keycodes)
             \o << Modifiers(PrevMods(c.kb)) >>)
       EXCEPT !.kb = "virtual"]

\* the first entry of the walk that qualifies, 0 when none does
FirstOf(hits) == IF hits = {} THEN 0 ELSE CHOOSE i \in hits : \A j \in hits : i <= j

FirstMatch(keysym) ==
    FirstOf({i \in 1 .. Len(virtual_keymap) : Qualifies(virtual_keymap[i], keysym)})

TypeMatch(c, keysym, i) ==
    IF i = 0
    THEN [c |-> Emit(c, << Tried(keysym, FALSE) >>), found |-> FALSE]
    ELSE [c |-> DirectType(c, keysym, virtual_keymap[i].masks[1],
                           DirectKeycodes(virtual_keymap[i])),
          found |-> TRUE]

try_type_keysym(c, keysym) == TypeMatch(c, keysym, FirstMatch(keysym))

(***************************************************************************)
(* Typing text and performing actions.                                     *)
(***************************************************************************)
RECURSIVE TypeLoop(_, _)
\* The state st of the loop: the context (c), the position of the read
\* pointer (pos) and the keycodes collected so far (keycodes).
\* r is what keycode_from_ch returned; next is where the pointer moved to
TypeCollect(st, next, r) ==
    IF r.keycode = XKB_KEYCODE_INVALID
    THEN [st EXCEPT !.pos = next]
    ELSE [c |-> [Emit(st.c, << Allocated(r.keysym, r.keycode) >>) EXCEPT !.ime = r.ime],
          pos |-> next,
          keycodes |-> Append(st.keycodes, r.keycode)]

\* d is what utf8_decode returned
TypeDecoded(st, d) == TypeCollect(st, d.next, keycode_from_ch(st.c.ime, d.ch))

\* one round of the loop: decode, allocate, collect the keycode
TypeRound(st, text) == TypeDecoded(st, utf8_decode(text, st.pos))

\* while (text[0] != '\0')
TypeLoop(st, text) ==
    IF ByteAt(text, st.pos) = 0 THEN st ELSE TypeLoop(TypeRound(st, text), text)

\* faulty variant of SendText: the idle-reset timer is left as it is
SendTextNotArming(c, keycodes, keymap) ==
    IF ~keymap.ok
    THEN c
    ELSE [Emit(c, << SetKeymap(keymap), SetKeyboard("ime") >> \o PressRelease(keycodes))
            EXCEPT !.kb = "ime"]

\* install the keymap, switch the seat to the emulated keyboard, send the
\* keys and arm the idle-reset timer; nothing of it when there is no keymap
SendText(c, keycodes, keymap) ==
    IF ~keymap.ok
    THEN c
    ELSE [Emit(c, << SetKeymap(keymap), SetKeyboard("ime") >>
                  \o PressRelease(keycodes)
                  \o << TimerUpdate("ime_reset_ime_keyboard", IME_RESET_DELAY_MS) >>)
            EXCEPT !.kb = "ime", !.ime.timer = IME_RESET_DELAY_MS]

SendCollected(l, compiles) == SendText(l.c, l.keycodes, generate_keymap(l.c.ime, compiles))

\* the rest of type_text once the direct path was not taken or found nothing
TypeTextKeymap(c, text, compiles) ==
    SendCollected(TypeLoop([c |-> c, pos |-> 1, keycodes |-> << >>], text), compiles)

\* the direct path is tried for a one-byte text when no keycode is allocated
SingleCharText(text) == utf8_size(text, 1) = 1 /\ ByteAt(text, 2) = 0

TriesDirect(ime, text) ==
    /\ SingleCharText(text)
    /\ ime.keys = << >>
    /\ keysym_from_ch(text[1]) # XKB_KEY_NoSymbol

\* faulty variant of TypeTextTried: the result of the search is ignored
TypeTextTriedInVain(t, text, compiles) == TypeTextKeymap(t.c, text, compiles)

\* t is what try_type_keysym returned
TypeTextTried(t, text, compiles) ==
    IF t.found THEN t.c ELSE TypeTextKeymap(t.c, text, compiles)

TypeTextFrom(c, text, compiles) ==
    IF TriesDirect(c.ime, text)
    THEN TypeTextTried(try_type_keysym(c, keysym_from_ch(text[1])), text, compiles)
    ELSE TypeTextKeymap(c, text, compiles)

type_text(c, text, compiles) ==
    TypeTextFrom(Emit(c, << [op |-> "type_text", text |-> text] >>), text, compiles)

\* faulty variant of SendAction: the seat is switched and the key sent even
\* when there is no keymap
SendActionAnyway(c, keycode, keymap) ==
    [Emit(c, (IF keymap.ok THEN << SetKeymap(keymap) >> ELSE << >>)
             \o << SetKeyboard("ime"),
                   Key(keycode, "pressed"), Key(keycode, "released") >>)
       EXCEPT !.kb = "ime"]

\* install the keymap, switch the seat to the emulated keyboard and send the
\* action's key; nothing of it when there is no keymap
SendAction(c, keycode, keymap) ==
    IF ~keymap.ok
    THEN c
    ELSE [Emit(c, << SetKeymap(keymap), SetKeyboard("ime"),
                     Key(keycode, "pressed"), Key(keycode, "released") >>)
            EXCEPT !.kb = "ime"]

\* faulty variant of PerformTried: the result of the search is ignored
PerformTriedInVain(t, keycode, compiles) ==
    SendAction(t.c, keycode, generate_keymap(t.c.ime, compiles))

\* t is what try_type_keysym returned
PerformTried(t, keycode, compiles) ==
    IF t.found THEN t.c ELSE SendAction(t.c, keycode, generate_keymap(t.c.ime, compiles))

IsSupported(action) == action \in DOMAIN actions

PerformFrom(c, action, compiles) ==
    IF ~IsSupported(action)
    THEN c
    ELSE PerformTried(try_type_keysym(c, actions[action].keysym),
                      actions[action].keycode, compiles)

perform_action(c, action, compiles) ==
    PerformFrom(Emit(c, << [op |-> "perform_action", action |-> action] >>),
                action, compiles)

\* the steps of ime_handle_commit once the serial matched
CommitText(c, compiles) ==
    IF c.ime.pending.string # Null
    THEN type_text(c, c.ime.pending.string[1], compiles)
    ELSE c

CommitAction(c, compiles) ==
    IF c.ime.pending.action # GAMESCOPE_INPUT_METHOD_ACTION_NONE
    THEN perform_action(c, c.ime.pending.action, compiles)
    ELSE c

\* faulty variant of ClearPending: the pending fields are kept
ClearPendingNot(c) ==
    Emit(c, << TimerUpdate("ime_reset_keyboard", KEYBOARD_RESET_DELAY_MS) >>)

\* faulty variant of ClearPending: only the pending action is cleared
ClearPendingAction(c) ==
    [Emit(c, << TimerUpdate("ime_reset_keyboard", KEYBOARD_RESET_DELAY_MS) >>)
       EXCEPT !.ime.pending.action = GAMESCOPE_INPUT_METHOD_ACTION_NONE]

ClearPending(c) ==
    [Emit(c, << TimerUpdate("ime_reset_keyboard", KEYBOARD_RESET_DELAY_MS) >>)
       EXCEPT !.ime.pending.string = Null,
              !.ime.pending.action = GAMESCOPE_INPUT_METHOD_ACTION_NONE]

CommitMatched(c, compiles) ==
    ClearPending(CommitAction(CommitText(c, compiles), compiles))

(***************************************************************************)
(* Inputs.                                                                 *)
(***************************************************************************)
\* "A", "!", U+00E9, and U+00E9 U+FFFF "!" (U+FFFF has no keysym)
Texts == { << 65 >>, << 33 >>, << 195, 169 >>, << 195, 169, 239, 191, 191, 33 >> }

\* the inputs of the runs with several client ids: one text that is typed
\* directly and one that needs a keymap, one action of each kind
FewTexts == { << 65 >>, << 195, 169, 239, 191, 191, 33 >> }

FewActions == { GAMESCOPE_INPUT_METHOD_ACTION_DELETE_LEFT,
                GAMESCOPE_INPUT_METHOD_ACTION_MOVE_RIGHT }

\* delete-left, move-right, and a code outside the action table
ActionInputs == { GAMESCOPE_INPUT_METHOD_ACTION_DELETE_LEFT,
                  GAMESCOPE_INPUT_METHOD_ACTION_MOVE_RIGHT, 9 }

Serials == { 1, 2 }

(***************************************************************************)
(* Initial state: the manager exists, no input method was created.         *)
(***************************************************************************)
Init ==
    /\ resources = {}
    /\ sessions = << >>
    /\ active_input_method = 0
    /\ stale_timers = {}
    /\ reset_keyboard_timer = -1
    /\ seat_keyboard \in {"null", "virtual"}
    /\ crashed = FALSE
    /\ log = << >>
    /\ last = [op |-> "create_ime_manager"]

\* new wlserver_input_method(): serial 1, nothing pending, no keys, timer idle
NewSession ==
    [serial |-> 1,
     pending |-> [string |-> Null, action |-> GAMESCOPE_INPUT_METHOD_ACTION_NONE],
     keys |-> << >>,
     next_keycode_index |-> 0,
     timer |-> -1]

HasSession(h) == h \in DOMAIN sessions

\* sessions with the entry of h removed
Without(h) == [k \in DOMAIN sessions \ {h} |-> sessions[k]]

\* sessions with the entry of h set to s
With(h, s) == [k \in DOMAIN sessions \cup {h} |-> IF k = h THEN s ELSE sessions[k]]

\* the context a handler of resource h starts from
Context(h) == [ime |-> sessions[h], kb |-> seat_keyboard, log |-> << >>]

(***************************************************************************)
(* Requests.                                                               *)
(***************************************************************************)
\* the client uses the lowest free object id
NewId(h) == h \notin resources /\ \A k \in Handles : k < h => k \in resources

\* faulty variant of Registered: the single-slot check is left out
RegisteredNever == FALSE

\* if (active_input_method != nullptr)
Registered == active_input_method # 0

manager_handle_create_input_method(h) ==
    /\ ~crashed
    /\ NewId(h)
    /\ resources' = resources \cup {h}
    /\ IF Registered
       THEN /\ log' = << Send("unavailable", 0) >>
            /\ UNCHANGED << sessions, active_input_method >>
       ELSE /\ sessions' = With(h, NewSession)
            /\ log' = << Send("done", NewSession.serial) >>
            /\ active_input_method' = h
    /\ last' = [op |-> "create_input_method", h |-> h]
    /\ UNCHANGED << stale_timers, reset_keyboard_timer, seat_keyboard, crashed >>

\* a request on a resource without user data dereferences a null pointer
NullDereference(op, h) ==
    /\ crashed' = TRUE
    /\ log' = << >>
    /\ last' = [op |-> "null_dereference", request |-> op, h |-> h]
    /\ UNCHANGED << resources, sessions, active_input_method, stale_timers,
                    reset_keyboard_timer, seat_keyboard >>

ime_handle_set_string(h, text) ==
    /\ ~crashed
    /\ h \in resources
    /\ IF ~HasSession(h)
       THEN NullDereference("set_string", h)
       ELSE /\ sessions' = [sessions EXCEPT ![h].pending.string = Some(text)]
            /\ log' = << >>
            /\ last' = [op |-> "set_string", h |-> h, text |-> text]
            /\ UNCHANGED << resources, active_input_method, stale_timers,
                            reset_keyboard_timer, seat_keyboard, crashed >>

\* faulty variant of ime_handle_set_action: staging an action drops the text
ime_handle_set_action_dropping(h, action) ==
    /\ ~crashed
    /\ h \in resources
    /\ IF ~HasSession(h)
       THEN NullDereference("set_action", h)
       ELSE /\ sessions' = [sessions EXCEPT ![h].pending =
                                [string |-> Null, action |-> action]]
            /\ log' = << >>
            /\ last' = [op |-> "set_action", h |-> h, action |-> action]
            /\ UNCHANGED << resources, active_input_method, stale_timers,
                            reset_keyboard_timer, seat_keyboard, crashed >>

ime_handle_set_action(h, action) ==
    /\ ~crashed
    /\ h \in resources
    /\ IF ~HasSession(h)
       THEN NullDereference("set_action", h)
       ELSE /\ sessions' = [sessions EXCEPT ![h].pending.action = action]
            /\ log' = << >>
            /\ last' = [op |-> "set_action", h |-> h, action |-> action]
            /\ UNCHANGED << resources, active_input_method, stale_timers,
                            reset_keyboard_timer, seat_keyboard, crashed >>

\* faulty variant of SerialMatches: every serial is taken for the session's
SerialMatchesAny(ime, serial) == TRUE

\* if (serial != ime->serial) return;
SerialMatches(ime, serial) == serial = ime.serial

\* the record of a commit request: again tells that the request before it
\* was the same request
CommitOf(h, serial) ==
    [op |-> "commit", h |-> h, serial |-> serial,
     again |-> last.op = "commit" /\ last.h = h /\ last.serial = serial]

\* cap: the largest next_keycode_index a handler may leave behind
ime_handle_commit(h, serial, compiles, cap) ==
    /\ ~crashed
    /\ h \in resources
    /\ IF ~HasSession(h)
       THEN NullDereference("commit", h)
       ELSE IF ~SerialMatches(sessions[h], serial)
       THEN /\ log' = << >>
            /\ last' = CommitOf(h, serial)
            /\ UNCHANGED << resources, sessions, active_input_method, stale_timers,
                            reset_keyboard_timer, seat_keyboard, crashed >>
       ELSE \E c \in {CommitMatched(Context(h), compiles)} :
            /\ c.ime.next_keycode_index <= cap
            /\ sessions' = [sessions EXCEPT ![h] = c.ime]
            /\ seat_keyboard' = c.kb
            /\ reset_keyboard_timer' = KEYBOARD_RESET_DELAY_MS
            /\ log' = c.log
            /\ last' = CommitOf(h, serial)
            /\ UNCHANGED << resources, active_input_method, stale_timers,
                            crashed >>

\* wl_resource_destroy, on the destroy request or when the client goes away
ime_handle_resource_destroy(h) ==
    /\ ~crashed
    /\ h \in resources
    /\ resources' = resources \ {h}
    /\ IF ~HasSession(h)
       THEN UNCHANGED << sessions, active_input_method, stale_timers, seat_keyboard >>
       ELSE /\ active_input_method' = 0
            \* wlr_input_device_destroy: the seat drops a destroyed keyboard
            /\ seat_keyboard' = IF seat_keyboard = "ime" THEN "null" ELSE seat_keyboard
            \* the timer's event source is not removed
            /\ stale_timers' = IF sessions[h].timer >= 0
                               THEN stale_timers \cup {sessions[h].timer}
                               ELSE stale_timers
            /\ sessions' = Without(h)
    /\ log' = << >>
    /\ last' = [op |-> "destroy", h |-> h]
    /\ UNCHANGED << reset_keyboard_timer, crashed >>

(***************************************************************************)
(* Timers and the clock.                                                   *)
(***************************************************************************)
\* keys.clear(); next_keycode_index = 0
ResetKeys(ime) == [ime EXCEPT !.keys = << >>, !.next_keycode_index = 0]

\* the idle-reset timer of a live session fires
reset_ime_keyboard(h) ==
    /\ ~crashed
    /\ HasSession(h)
    /\ sessions[h].timer = 0
    /\ sessions' = [sessions EXCEPT ![h] = [ResetKeys(@) EXCEPT !.timer = -1]]
    /\ log' = << >>
    /\ last' = [op |-> "reset_ime_keyboard", data |-> "live"]
    /\ UNCHANGED << resources, active_input_method, stale_timers, reset_keyboard_timer,
                    seat_keyboard, crashed >>

\* The idle-reset timer of a deleted session fires: reset_ime_keyboard runs
\* on freed memory.  The write lands in memory nobody uses, or in the session
\* allocated since at the same address, or the process dies.
reset_ime_keyboard_deleted(outcome) ==
    /\ ~crashed
    /\ 0 \in stale_timers
    /\ stale_timers' = stale_timers \ {0}
    /\ CASE outcome = "unused" -> UNCHANGED << sessions, crashed >>
         [] outcome = "reused" ->
              /\ active_input_method # 0
              /\ sessions' = [sessions EXCEPT ![active_input_method] = ResetKeys(@)]
              /\ UNCHANGED crashed
         [] OTHER -> crashed' = TRUE /\ UNCHANGED sessions
    /\ log' = << >>
    /\ last' = [op |-> "reset_ime_keyboard", data |-> "freed"]
    /\ UNCHANGED << resources, active_input_method, reset_keyboard_timer,
                    seat_keyboard >>

\* faulty variant of reset_keyboard: the seat's keyboard is left as it is
reset_keyboard_idle ==
    /\ ~crashed
    /\ reset_keyboard_timer = 0
    /\ reset_keyboard_timer' = -1
    /\ log' = << >>
    /\ last' = [op |-> "reset_keyboard"]
    /\ UNCHANGED << resources, sessions, active_input_method, stale_timers,
                    seat_keyboard, crashed >>

\* the device-reconciliation timer fires; only managed keyboards carry data
reset_keyboard ==
    /\ ~crashed
    /\ reset_keyboard_timer = 0
    /\ reset_keyboard_timer' = -1
    /\ IF seat_keyboard = "null" \/ seat_keyboard # "managed"
       THEN /\ seat_keyboard' = "virtual"
            /\ log' = << SetKeyboard("virtual") >>
       ELSE /\ UNCHANGED seat_keyboard
            /\ log' = << >>
    /\ last' = [op |-> "reset_keyboard"]
    /\ UNCHANGED << resources, sessions, active_input_method, stale_timers,
                    crashed >>

\* what is left of an armed timer after TickMs more milliseconds
Elapse(t) == IF t < 0 THEN t ELSE IF t > TickMs THEN t - TickMs ELSE 0

ArmedTimers ==
    stale_timers \cup {reset_keyboard_timer} \cup {sessions[h].timer : h \in DOMAIN sessions}

\* time passes: no timer is due, and some timer is armed
Tick ==
    /\ ~crashed
    /\ 0 \notin ArmedTimers
    /\ \E t \in ArmedTimers : t > 0
    /\ sessions' = [h \in DOMAIN sessions |->
                       [sessions[h] EXCEPT !.timer = Elapse(@)]]
    /\ stale_timers' = {Elapse(t) : t \in stale_timers}
    /\ reset_keyboard_timer' = Elapse(reset_keyboard_timer)
    /\ log' = << >>
    /\ last' = [op |-> "tick"]
    /\ UNCHANGED << resources, active_input_method, seat_keyboard, crashed >>

\* the rest of the compositor makes another keyboard the seat's keyboard
wlserver_set_keyboard(dev) ==
    /\ ~crashed
    /\ dev \in {"virtual", "managed"}
    /\ seat_keyboard' = dev
    /\ log' = << >>
    /\ last' = [op |-> "wlserver"]
    /\ UNCHANGED << resources, sessions, active_input_method, stale_timers,
                    reset_keyboard_timer, crashed >>

(***************************************************************************)
(* The event loop: any request of a client on the ids H, with texts from T *)
(* and action codes from A, or a timer that is due, or time passing.       *)
(***************************************************************************)
NextOf(H, T, A, cap) ==
    \/ \E h \in H : manager_handle_create_input_method(h)
    \/ \E h \in H, text \in T : ime_handle_set_string(h, text)
    \/ \E h \in H, action \in A : ime_handle_set_action(h, action)
    \/ \E h \in H, serial \in Serials, compiles \in BOOLEAN :
          ime_handle_commit(h, serial, compiles, cap)
    \/ \E h \in H : ime_handle_resource_destroy(h)
    \/ \E h \in H : reset_ime_keyboard(h)
    \/ \E outcome \in {"unused", "reused", "crash"} : reset_ime_keyboard_deleted(outcome)
    \/ reset_keyboard
    \/ Tick
    \/ \E dev \in {"virtual", "managed"} : wlserver_set_keyboard(dev)

\* one client id, every text and action code
Next == NextOf({1}, Texts, ActionInputs, MaxCursor)

Spec == Init /\ [][Next]_vars

\* one client id, every text, and the action the canonical keymap lacks
NextTimers == NextOf({1}, Texts, {GAMESCOPE_INPUT_METHOD_ACTION_MOVE_RIGHT}, MaxCursor)

\* The event loop's scheduling: time passes while a timer is armed, and a
\* timer that is due is dispatched.
SpecTimers ==
    /\ Init /\ [][NextTimers]_vars
    /\ WF_vars(Tick)
    /\ WF_vars(reset_keyboard)
    /\ WF_vars(\E h \in Handles : reset_ime_keyboard(h))
    /\ WF_vars(\E outcome \in {"unused", "reused", "crash"} :
                  reset_ime_keyboard_deleted(outcome))

\* several client ids, fewer texts and action codes
NextClients == NextOf(Handles, FewTexts, FewActions, MaxCursor)

SpecClients == Init /\ [][NextClients]_vars

(***************************************************************************)
(* A text that needs more allocations than the catalog has keycodes.       *)
(***************************************************************************)
\* "!?!?...": one character more than the catalog has keycodes, no two
\* adjacent characters alike
LongText == [i \in 1 .. allow_keycodes_len + 1 |-> IF i % 2 = 1 THEN 33 ELSE 63]

LongTexts == { << 33 >>, LongText }

NextLong ==
    NextOf({1}, LongTexts, {GAMESCOPE_INPUT_METHOD_ACTION_MOVE_RIGHT}, MaxLongCursor)

SpecLong == Init /\ [][NextLong]_vars

(***************************************************************************)
(* The allocator on its own: a session exists, and symbols are requested   *)
(* of it one by one, with idle resets in between.                          *)
(***************************************************************************)
\* U+00E9, "!" and U+FFFF (which has no keysym)
AllocChars == { 233, 33, 65535 }

InitAlloc ==
    /\ resources = {1}
    /\ sessions = [h \in {1} |-> NewSession]
    /\ active_input_method = 1
    /\ stale_timers = {}
    /\ reset_keyboard_timer = -1
    /\ seat_keyboard = "null"
    /\ crashed = FALSE
    /\ log = << Send("done", NewSession.serial) >>
    /\ last = [op |-> "create_input_method", h |-> 1]

Allocate(ch) ==
    /\ sessions[1].next_keycode_index < MaxAllocCursor
    /\ \E r \in {keycode_from_ch(sessions[1], ch)} :
          /\ sessions' = [sessions EXCEPT ![1] = r.ime]
          /\ last' = [op |-> "keycode_from_ch", ch |-> ch, keycode |-> r.keycode]
    /\ log' = << >>
    /\ UNCHANGED << resources, active_input_method, stale_timers, reset_keyboard_timer,
                    seat_keyboard, crashed >>

IdleReset ==
    /\ sessions' = [sessions EXCEPT ![1] = ResetKeys(@)]
    /\ last' = [op |-> "reset_ime_keyboard", data |-> "live"]
    /\ log' = << >>
    /\ UNCHANGED << resources, active_input_method, stale_timers, reset_keyboard_timer,
                    seat_keyboard, crashed >>

NextAlloc == (\E ch \in AllocChars : Allocate(ch)) \/ IdleReset

SpecAlloc == InitAlloc /\ [][NextAlloc]_vars

(***************************************************************************)
(* Reading a handler's log.                                                *)
(***************************************************************************)
\* the entries of l with the given op
Ops(l, op) == SelectSeq(l, LAMBDA e : e.op = op)

\* the position of the first entry with the given op, 0 when there is none
IndexOf(l, op) ==
    IF \E i \in 1 .. Len(l) : l[i].op = op
    THEN CHOOSE i \in 1 .. Len(l) : l[i].op = op /\ \A j \in 1 .. i - 1 : l[j].op # op
    ELSE 0

\* what type_text did in a commit's log: from its marker up to perform_action's
\* marker, or up to the closing timer update
TextPart(l) ==
    IF IndexOf(l, "type_text") = 0 THEN << >>
    ELSE SubSeq(l, 1, IF IndexOf(l, "perform_action") = 0
                      THEN Len(l) - 1
                      ELSE IndexOf(l, "perform_action") - 1)

\* what perform_action did in a commit's log
ActionPart(l) ==
    IF IndexOf(l, "perform_action") = 0 THEN << >>
    ELSE SubSeq(l, IndexOf(l, "perform_action"), Len(l) - 1)

\* the step is a commit request on h with the serial of h's session
MatchedCommit(h) ==
    /\ HasSession(h)
    /\ last'.op = "commit" /\ last'.h = h /\ last'.serial = sessions[h].serial

\* the step is a commit request on h with another serial
StaleCommit(h) ==
    /\ HasSession(h)
    /\ last'.op = "commit" /\ last'.h = h /\ last'.serial # sessions[h].serial

\* the last request was a commit with the serial of the session
AfterMatchedCommit ==
    /\ last.op = "commit" /\ HasSession(last.h)
    /\ last.serial = sessions[last.h].serial

(***************************************************************************)
(* C1: at most one session is registered at any time; a create is accepted *)
(* (done, serial 1) exactly when none is registered, and is otherwise      *)
(* answered with unavailable, leaving the registered session as it was;    *)
(* destroying the registered session empties the slot, so that the next    *)
(* create is accepted again.                                               *)
(***************************************************************************)
C1_OneSlot ==
    /\ Cardinality(DOMAIN sessions) <= 1
    /\ DOMAIN sessions \subseteq resources
    /\ active_input_method = 0 <=> DOMAIN sessions = {}
    /\ active_input_method # 0 => DOMAIN sessions = {active_input_method}

C1_CreateStep ==
    \A h \in Handles :
       (h \notin resources /\ h \in resources') =>
          IF active_input_method = 0
          THEN /\ log' = << Send("done", 1) >>
               /\ active_input_method' = h
               /\ HasSession(h)' /\ sessions'[h].serial = 1
          ELSE /\ log' = << Send("unavailable", 0) >>
               /\ sessions' = sessions
               /\ active_input_method' = active_input_method

C1_DestroyStep ==
    \A h \in Handles :
       (h \in resources /\ h \notin resources' /\ h = active_input_method) =>
          active_input_method' = 0 /\ DOMAIN sessions' = {}

C1_SingleSession == []C1_OneSlot /\ [][C1_CreateStep /\ C1_DestroyStep]_vars

\* a create was just rejected while the registered session had keys
\* allocated and text and an action pending
C1_Witness ==
    /\ last.op = "create_input_method"
    /\ log = << Send("unavailable", 0) >>
    /\ active_input_method # 0 /\ active_input_method # last.h
    /\ sessions[active_input_method].keys # << >>
    /\ sessions[active_input_method].pending.string # Null
    /\ sessions[active_input_method].pending.action # GAMESCOPE_INPUT_METHOD_ACTION_NONE

(***************************************************************************)
(* C2: the idle-reset timer callback never reads or writes a session that  *)
(* has been destroyed.                                                     *)
(***************************************************************************)
C2_TimerNeverTouchesDestroyed ==
    last.op = "reset_ime_keyboard" => last.data = "live"

(***************************************************************************)
(* C3: a commit whose serial differs from the session's serial changes     *)
(* nothing: pending text and action, allocator queue, seat keyboard and    *)
(* timers stay as they were, and no event is emitted or keymap installed.  *)
(***************************************************************************)
C3_StaleCommitIsNoOp ==
    [][\A h \in Handles :
          StaleCommit(h) =>
             /\ sessions' = sessions
             /\ seat_keyboard' = seat_keyboard
             /\ reset_keyboard_timer' = reset_keyboard_timer
             /\ log' = << >>]_vars

\* a commit with another serial was just processed with text and an action
\* pending
C3_Witness ==
    /\ last.op = "commit" /\ HasSession(last.h)
    /\ last.serial # sessions[last.h].serial
    /\ sessions[last.h].pending.string # Null
    /\ sessions[last.h].pending.action # GAMESCOPE_INPUT_METHOD_ACTION_NONE
    /\ sessions[last.h].keys # << >>

(***************************************************************************)
(* C4, as claimed: after any commit request, whether or not its serial     *)
(* matched, pending text and pending action are both empty.                *)
(***************************************************************************)
C4_PendingEmptyAfterAnyCommit ==
    (last.op = "commit" /\ HasSession(last.h)) =>
       /\ sessions[last.h].pending.string = Null
       /\ sessions[last.h].pending.action = GAMESCOPE_INPUT_METHOD_ACTION_NONE

(***************************************************************************)
(* C4, amended: after a commit request whose serial matched, pending text  *)
(* and pending action are both empty.                                      *)
(***************************************************************************)
C4_PendingEmptyAfterMatchedCommit ==
    AfterMatchedCommit =>
       /\ sessions[last.h].pending.string = Null
       /\ sessions[last.h].pending.action = GAMESCOPE_INPUT_METHOD_ACTION_NONE

\* a matched commit that had both a text and an action to process
C4_Witness ==
    /\ AfterMatchedCommit
    /\ IndexOf(log, "type_text") # 0
    /\ IndexOf(log, "perform_action") # 0
    /\ sessions[last.h].pending.string = Null

(***************************************************************************)
(* C5: the allocator queue never holds more than the 47 catalog keycodes;  *)
(* a request for the symbol of the queue's last entry returns that entry's *)
(* keycode and leaves queue and cursor unchanged; a request that allocates *)
(* with the queue at capacity removes the front entry and leaves the queue *)
(* at capacity.                                                            *)
(***************************************************************************)
C5_Bounded == \A h \in DOMAIN sessions : Len(sessions[h].keys) <= 47

C5_AllocateStep ==
    (last'.op = "keycode_from_ch" /\ last' # last) =>
       LET keys == sessions[1].keys
           keysym == keysym_from_ch(last'.ch)
       IN  /\ (keys # << >> /\ keysym = keys[Len(keys)].keysym) =>
                 /\ last'.keycode = keys[Len(keys)].keycode
                 /\ sessions'[1].keys = keys
                 /\ sessions'[1].next_keycode_index = sessions[1].next_keycode_index
           /\ (Len(keys) = 47 /\ sessions'[1].keys # keys) =>
                 /\ Len(sessions'[1].keys) = 47
                 /\ SubSeq(sessions'[1].keys, 1, 46) = Tail(keys)
                 /\ sessions'[1].keys[47].keysym = keysym

C5_Allocator == []C5_Bounded /\ [][C5_AllocateStep]_vars

\* an allocation just evicted: the queue is full and the cursor is past the
\* catalog size
C5_Witness ==
    /\ last.op = "keycode_from_ch"
    /\ Len(sessions[1].keys) = 47
    /\ sessions[1].next_keycode_index > 47
    /\ sessions[1].keys[47].keycode = last.keycode

(***************************************************************************)
(* Reading a pending text.                                                 *)
(***************************************************************************)
RECURSIVE Scalars(_, _)
\* the scalar values the decoder yields from position pos on
Scalars(text, pos) ==
    IF ByteAt(text, pos) = 0
    THEN << >>
    ELSE << utf8_decode(text, pos).ch >> \o Scalars(text, utf8_decode(text, pos).next)

\* the symbols of the scalar values that resolve, in decode order
Resolved(text) ==
    SelectSeq([i \in 1 .. Len(Scalars(text, 1)) |-> keysym_from_ch(Scalars(text, 1)[i])],
              LAMBDA k : k # XKB_KEY_NoSymbol)

\* the number of runs of equal adjacent elements
Runs(q) == Cardinality({i \in 1 .. Len(q) : i = 1 \/ q[i] # q[i - 1]})

\* the text decodes to exactly one scalar value
OneScalar(text) == text # << >> /\ utf8_decode(text, 1).next = Len(text) + 1

\* the text is one byte long, a single ASCII character
OneByte(text) == Len(text) = 1 /\ text[1] \in 1 .. 127

\* the step is a commit on h with matching serial and text pending
TextCommit(h) == MatchedCommit(h) /\ sessions[h].pending.string # Null

\* the step is a commit on h with matching serial and an action pending
ActionCommit(h) ==
    MatchedCommit(h) /\ sessions[h].pending.action # GAMESCOPE_INPUT_METHOD_ACTION_NONE

\* the part of a log starts with a direct-type search that succeeded
DirectPart(part) == Len(part) >= 2 /\ part[2].op = "try_type_keysym" /\ part[2].found

\* the keymap binds the keycode to the symbol
Binds(keymap, keycode, keysym) ==
    \E i \in 1 .. Len(keymap.symbols) :
       keymap.symbols[i] = [keycode |-> keycode, keysym |-> keysym]

\* what C6 asks of the commit of a one-character text: the search is the
\* first thing done, and when the canonical keymap has the symbol on a level
\* that qualifies, nothing is allocated and no keymap is installed
C6_DirectFirst(h, text) ==
    LET keysym == keysym_from_ch(utf8_decode(text, 1).ch)
        part == TextPart(log')
    IN  keysym # XKB_KEY_NoSymbol =>
           /\ Len(part) >= 2
           /\ part[2].op = "try_type_keysym" /\ part[2].keysym = keysym
           /\ (part[2].found \/ FirstMatch(keysym) # 0) =>
                 /\ Ops(part, "keycode_from_ch") = << >>
                 /\ Ops(part, "set_keymap") = << >>
                 /\ sessions'[h].keys = << >>

C7_Sent(h, text, part) ==
    LET keys == Ops(part, "key")
        at == IndexOf(part, "set_keymap")
    IN  /\ Len(keys) = 2 * Len(Resolved(text))
        /\ \A i \in 1 .. Len(Resolved(text)) :
              /\ keys[2 * i - 1].state = "pressed"
              /\ keys[2 * i].state = "released"
              /\ keys[2 * i].code = keys[2 * i - 1].code
              /\ Binds(part[at].keymap, keys[2 * i].code, Resolved(text)[i])
        /\ SubSeq(part, at + 1, Len(part)) =
              << SetKeyboard("ime") >> \o keys
              \o << TimerUpdate("ime_reset_ime_keyboard", 100) >>
        /\ Ops(SubSeq(part, 1, at), "key") = << >>
        /\ sessions[h].keys = << >> => Len(sessions'[h].keys) = Runs(Resolved(text))
        /\ sessions'[h].timer = 100

C7_SendStep ==
    \A h \in Handles :
       (TextCommit(h) /\ IndexOf(TextPart(log'), "set_keymap") # 0) =>
          C7_Sent(h, sessions[h].pending.string[1], TextPart(log'))

\* the idle-reset timer of a live session fires when its 100 ms are over
C7_ResetStep ==
    \A h \in Handles :
       (/\ HasSession(h)
        /\ last'.op = "reset_ime_keyboard" /\ last'.data = "live"
        /\ sessions'[h] # sessions[h]) =>
          /\ sessions[h].timer = 0
          /\ sessions'[h].keys = << >>
          /\ sessions'[h].next_keycode_index = 0
          /\ sessions'[h].timer = -1

\* time is running on the idle-reset timer of the session
C7_Running == \E h \in DOMAIN sessions : sessions[h].timer \in 0 .. 99

\* the timer fired and left queue and cursor cleared, or text was sent again
\* (the timer is back at 100 ms), or the session or the process is gone
C7_Over ==
    \/ crashed
    \/ DOMAIN sessions = {}
    \/ \E h \in DOMAIN sessions :
          \/ sessions[h].timer = 100
          \/ /\ sessions[h].timer = -1
             /\ sessions[h].keys = << >>
             /\ sessions[h].next_keycode_index = 0

\* the idle-reset timer is never armed for more than 100 ms
C7_Armed ==
    \A h \in DOMAIN sessions : sessions[h].timer \in {-1} \cup 0 .. 100

(***************************************************************************)
(* C7: when a commit with matching serial sends the pending text through a *)
(* synthesized keymap, the key events are one press immediately followed   *)
(* by the release of the same keycode for each decoded scalar value that   *)
(* resolves to a symbol, in decode order, each keycode bound to its symbol *)
(* in the installed keymap, unresolvable scalars skipped; from an empty    *)
(* queue the queue then holds one entry per allocation; the idle-reset     *)
(* timer is armed for 100 ms, and unless text is sent again or the session *)
(* goes away it fires, 100 ms after the send, and leaves the queue empty   *)
(* and the cursor at zero.                                                 *)
(***************************************************************************)
C7_SynthesizedSend ==
    /\ []C7_Armed
    /\ [][C7_SendStep /\ C7_ResetStep]_vars
    /\ (C7_Running ~> C7_Over)

\* U+00E9 U+FFFF "!" was just sent from an empty queue: two press/release
\* pairs, two entries in the queue, the timer armed
C7_Witness ==
    /\ AfterMatchedCommit
    /\ log # << >> /\ log[1].op = "type_text"
    /\ log[1].text = << 195, 169, 239, 191, 191, 33 >>
    /\ Len(Ops(TextPart(log), "key")) = 4
    /\ Len(Ops(TextPart(log), "keycode_from_ch")) = 2
    /\ Len(sessions[last.h].keys) = 2
    /\ sessions[last.h].timer = 100

\* what C8 asks of the action part of a commit's log
C8_Performed(action, part) ==
    IF action \notin 1 .. 5
    THEN part = << [op |-> "perform_action", action |-> action] >>
    ELSE /\ Len(part) >= 2
         /\ part[2].op = "try_type_keysym" /\ part[2].keysym = actions[action].keysym
         /\ part[2].found => Ops(part, "set_keymap") = << >>
         /\ ~part[2].found =>
               \/ Len(part) = 2
               \/ /\ Len(part) = 6
                  /\ part[3].op = "set_keymap"
                  /\ Binds(part[3].keymap, actions[action].keycode, actions[action].keysym)
                  /\ SubSeq(part, 4, 6) =
                        << SetKeyboard("ime"),
                           Key(actions[action].keycode, "pressed"),
                           Key(actions[action].keycode, "released") >>

(***************************************************************************)
(* C8: on a commit with matching serial and an action pending, an action   *)
(* of the action table is first searched for on the canonical keymap, and  *)
(* only when the search finds nothing is a keymap synthesized and one      *)
(* press followed by one release of the action's keycode emitted on the    *)
(* emulated keyboard; an action outside the table emits no key event,      *)
(* installs no keymap and leaves the seat's keyboard as it was.            *)
(***************************************************************************)
C8_PerformAction ==
    [][\A h \in Handles :
          ActionCommit(h) =>
             /\ C8_Performed(sessions[h].pending.action, ActionPart(log'))
             /\ (sessions[h].pending.action \notin 1 .. 5
                 /\ sessions[h].pending.string = Null) =>
                   /\ seat_keyboard' = seat_keyboard
                   /\ sessions'[h].keys = sessions[h].keys]_vars

\* move-right, which the canonical keymap does not have, was just sent
\* through a synthesized keymap
C8_Witness ==
    /\ AfterMatchedCommit
    /\ Len(ActionPart(log)) = 6
    /\ ActionPart(log)[1].action = GAMESCOPE_INPUT_METHOD_ACTION_MOVE_RIGHT
    /\ ~ActionPart(log)[2].found
    /\ ActionPart(log)[5] = Key(KEY_RIGHT, "pressed")
    /\ ActionPart(log)[6] = Key(KEY_RIGHT, "released")
    /\ seat_keyboard = "ime"

\* a part that typed directly installed no keymap, allocated nothing and
\* armed no timer
C9_DirectPartClean(part) ==
    DirectPart(part) =>
       /\ Ops(part, "set_keymap") = << >>
       /\ Ops(part, "keycode_from_ch") = << >>
       /\ Ops(part, "timer_update") = << >>
       /\ Ops(part, "set_keyboard") = << SetKeyboard("virtual") >>

\* every part of the log that is there typed directly
C9_AllDirect(l) ==
    /\ TextPart(l) # << >> \/ ActionPart(l) # << >>
    /\ TextPart(l) # << >> => DirectPart(TextPart(l))
    /\ ActionPart(l) # << >> => DirectPart(ActionPart(l))

C10_PendingCleared ==
    \A h \in DOMAIN sessions :
       (last.op = "commit" /\ last.h = h /\ last.serial = sessions[h].serial) =>
          sessions[h].pending =
             [string |-> Null, action |-> GAMESCOPE_INPUT_METHOD_ACTION_NONE]

C10_RepeatStep ==
    \A h \in Handles :
       (AfterMatchedCommit /\ last.h = h /\ MatchedCommit(h)) =>
          /\ \A i \in 1 .. Len(log') :
                log'[i].op \notin {"key", "modifiers", "set_keymap", "set_keyboard",
                                   "try_type_keysym", "keycode_from_ch"}
          /\ seat_keyboard' = seat_keyboard
          /\ sessions'[h] = sessions[h]

(***************************************************************************)
(* C10: after a commit with matching serial, pending text and pending      *)
(* action are both empty, and a commit with the same serial right after it *)
(* emits no key or modifier event, installs no keymap and changes neither  *)
(* the seat's keyboard nor the allocator queue.                            *)
(***************************************************************************)
C10_RepeatedCommit == []C10_PendingCleared /\ [][C10_RepeatStep]_vars

\* a commit with matching serial was just repeated; the seat still has the
\* emulated keyboard and the queue its keys from the first one
C10_Witness ==
    /\ AfterMatchedCommit
    /\ last.again
    /\ log = << TimerUpdate("ime_reset_keyboard", 100) >>
    /\ seat_keyboard = "ime"
    /\ sessions[last.h].keys # << >>

\* a set-text request on h just staged last'.text and touched nothing else
C11_SetTextStep ==
    \A h \in Handles :
       (HasSession(h) /\ last'.op = "set_string" /\ last'.h = h) =>
          /\ sessions' = [sessions EXCEPT ![h].pending.string = << last'.text >>]
          /\ log' = << >>
          /\ seat_keyboard' = seat_keyboard
          /\ reset_keyboard_timer' = reset_keyboard_timer
          /\ stale_timers' = stale_timers

\* a set-action request on h just staged last'.action and touched nothing else
C11_SetActionStep ==
    \A h \in Handles :
       (HasSession(h) /\ last'.op = "set_action" /\ last'.h = h) =>
          /\ sessions' = [sessions EXCEPT ![h].pending.action = last'.action]
          /\ log' = << >>
          /\ seat_keyboard' = seat_keyboard
          /\ reset_keyboard_timer' = reset_keyboard_timer
          /\ stale_timers' = stale_timers

\* the pending fields of a session change by a staging or a commit only
C11_StagedStays ==
    \A h \in Handles :
       (HasSession(h) /\ HasSession(h)' /\ sessions'[h].pending # sessions[h].pending) =>
          last'.op \in {"set_string", "set_action", "commit", "create_input_method"}

\* a commit with matching serial runs type_text once, on the staged text, and
\* perform_action once, on the staged action, and neither without a staging
C11_CommitStep ==
    \A h \in Handles :
       MatchedCommit(h) =>
          /\ Ops(log', "type_text") =
                IF sessions[h].pending.string = Null THEN << >>
                ELSE << [op |-> "type_text", text |-> sessions[h].pending.string[1]] >>
          /\ Ops(log', "perform_action") =
                IF sessions[h].pending.action = GAMESCOPE_INPUT_METHOD_ACTION_NONE
                THEN << >>
                ELSE << [op |-> "perform_action", action |-> sessions[h].pending.action] >>

(***************************************************************************)
(* C11: set-text and set-action only stage data: each replaces its own     *)
(* pending field, leaves the other one as it was, emits nothing and leaves *)
(* seat keyboard, keymaps, allocator queue and timers alone; a commit with *)
(* matching serial executes the text and the action staged last, each at   *)
(* most once.                                                              *)
(***************************************************************************)
C11_Staging ==
    [][C11_SetTextStep /\ C11_SetActionStep /\ C11_StagedStays /\ C11_CommitStep]_vars

\* a text was staged over another one with an action pending, keys
\* allocated and the idle-reset timer running
C11_Witness ==
    /\ last.op = "set_string" /\ HasSession(last.h)
    /\ sessions[last.h].pending.string = << last.text >>
    /\ sessions[last.h].pending.action # GAMESCOPE_INPUT_METHOD_ACTION_NONE
    /\ sessions[last.h].keys # << >>
    /\ sessions[last.h].timer > 0
    /\ seat_keyboard = "ime"

(***************************************************************************)
(* C12: once keys were sent through a synthesized keymap with the emulated *)
(* keyboard active, no commit switches the seat back to the canonical      *)
(* virtual keyboard: neither a later part of the same commit nor a commit  *)
(* that finds the emulated keyboard still active, which is the case only   *)
(* until the device-reconciliation timer fires.                            *)
(***************************************************************************)
C12_NoImmediateSwitchBack ==
    [][last'.op = "commit" =>
          \A j \in 1 .. Len(log') :
             log'[j] = SetKeyboard("virtual") =>
                /\ seat_keyboard # "ime"
                /\ \A i \in 1 .. j - 1 : log'[i] # SetKeyboard("ime")]_vars

\* every press of the text part carries a keycode that the keymap installed
\* in that part binds to the symbol of the press's character
C13_Bound(text, part) ==
    \A i \in 1 .. Len(Resolved(text)) :
       2 * i - 1 <= Len(Ops(part, "key")) =>
          Binds(part[IndexOf(part, "set_keymap")].keymap,
                Ops(part, "key")[2 * i - 1].code, Resolved(text)[i])

(***************************************************************************)
(* C13: every key press emitted for a text sent through a synthesized      *)
(* keymap carries a keycode that the keymap installed for that send binds  *)
(* to the symbol of the character it was allocated for, also when the text *)
(* needs more allocations than the catalog has keycodes.                   *)
(***************************************************************************)
C13_PressesBound ==
    [][\A h \in Handles :
          (TextCommit(h) /\ IndexOf(TextPart(log'), "set_keymap") # 0) =>
             C13_Bound(sessions[h].pending.string[1], TextPart(log'))]_vars

\* the part of a log sent keys through a keymap synthesized for it
SentPart(part) == IndexOf(part, "set_keymap") # 0

(***************************************************************************)
(* C14, as claimed: every send through a synthesized keymap, of a text or  *)
(* of an action, arms the idle-reset timer at 100 ms, so that a queue that *)
(* holds entries is not cleared less than 100 ms after the send.           *)
(***************************************************************************)
C14_EverySendRearms ==
    [][\A h \in Handles :
          (/\ MatchedCommit(h)
           /\ SentPart(TextPart(log')) \/ SentPart(ActionPart(log'))
           /\ sessions'[h].keys # << >>) =>
             sessions'[h].timer = 100]_vars

\* the idle-reset timer of a session that lives on changes in three ways:
\* a text send arms it at 100 ms, time takes at most TickMs off it, and at
\* zero it fires
C14_TimerStep ==
    \A h \in Handles :
       (HasSession(h) /\ HasSession(h)' /\ sessions'[h].timer # sessions[h].timer) =>
          \/ /\ MatchedCommit(h) /\ SentPart(TextPart(log'))
             /\ sessions'[h].timer = 100
          \/ /\ last'.op = "tick"
             /\ sessions[h].timer > 0
             /\ sessions'[h].timer >= 0
             /\ sessions'[h].timer < sessions[h].timer
             /\ sessions[h].timer - sessions'[h].timer <= TickMs
          \/ /\ last'.op = "reset_ime_keyboard" /\ last'.data = "live"
             /\ sessions[h].timer = 0
             /\ sessions'[h].timer = -1
          \/ last'.op = "create_input_method"

\* a text send arms the timer; an action send leaves it as it is
C14_SendStep ==
    \A h \in Handles :
       MatchedCommit(h) =>
          /\ SentPart(TextPart(log')) => sessions'[h].timer = 100
          /\ ~SentPart(TextPart(log')) => sessions'[h].timer = sessions[h].timer

(***************************************************************************)
(* C14, amended: the idle-reset timer of a session never fires less than   *)
(* 100 ms after the most recent send of text through a synthesized keymap: *)
(* every such send arms it at 100 ms, replacing the earlier deadline; the  *)
(* send of an action does not arm it.                                      *)
(***************************************************************************)
C14_TextSendRearms == [][C14_TimerStep /\ C14_SendStep]_vars

\* an action was just sent through a synthesized keymap while the timer of
\* an earlier text send was running: the queue holds entries and less than
\* 100 ms are left
C14_Witness ==
    /\ AfterMatchedCommit
    /\ TextPart(log) = << >>
    /\ SentPart(ActionPart(log))
    /\ sessions[last.h].keys # << >>
    /\ sessions[last.h].timer \in 0 .. 99

\* the device-reconciliation timer fires at zero only, leaves a managed
\* keyboard alone and replaces any other by the virtual keyboard
C15_FireStep ==
    (reset_keyboard_timer' = -1 /\ reset_keyboard_timer # -1) =>
       /\ last'.op = "reset_keyboard"
       /\ reset_keyboard_timer = 0
       /\ IF seat_keyboard = "managed"
          THEN seat_keyboard' = "managed" /\ log' = << >>
          ELSE seat_keyboard' = "virtual" /\ log' = << SetKeyboard("virtual") >>

\* every commit with matching serial arms the timer at 100 ms
C15_ArmStep ==
    \A h \in Handles : MatchedCommit(h) => reset_keyboard_timer' = 100

\* the emulated keyboard is the seat's keyboard only while the timer runs
C15_Pending ==
    /\ seat_keyboard = "ime" => reset_keyboard_timer \in 0 .. 100
    /\ last.op = "reset_keyboard" => seat_keyboard \in {"managed", "virtual"}

\* time is running on the device-reconciliation timer
C15_Running == reset_keyboard_timer \in 0 .. 99

\* the timer fired, or a commit armed it again, or the process is gone
C15_Over ==
    \/ crashed
    \/ reset_keyboard_timer = 100
    \/ last.op = "reset_keyboard" /\ seat_keyboard \in {"managed", "virtual"}

(***************************************************************************)
(* C15: every commit with matching serial arms the device-reconciliation   *)
(* timer at 100 ms; unless another such commit arrives first the timer     *)
(* fires, and after it fired the seat's keyboard is a managed keyboard or  *)
(* the virtual keyboard, never the emulated one; a managed keyboard is     *)
(* left as it is.                                                          *)
(***************************************************************************)
C15_Reconciliation ==
    /\ []C15_Pending
    /\ [][C15_FireStep /\ C15_ArmStep]_vars
    /\ (C15_Running ~> C15_Over)

\* the timer just fired 100 ms after a text was sent and took the seat back
\* to the virtual keyboard
C15_Witness ==
    /\ last.op = "reset_keyboard"
    /\ log = << SetKeyboard("virtual") >>
    /\ seat_keyboard = "virtual"
    /\ \E h \in DOMAIN sessions : sessions[h].keys # << >> /\ sessions[h].timer = 0

\* the seat's keyboard after the effects of a part, kb being the one before
KeyboardAfter(part, kb) ==
    IF Ops(part, "set_keyboard") = << >>
    THEN kb
    ELSE Ops(part, "set_keyboard")[Len(Ops(part, "set_keyboard"))].dev

\* the keys of the modifiers of a mask in the order shift, control, alt
ModifierKeys(mask) ==
    SelectSeq(<< [mod |-> "shift", key |-> 42], [mod |-> "ctrl", key |-> 29],
                 [mod |-> "alt", key |-> 56] >>,
              LAMBDA m : m.mod \in mask)

\* seq is the sequence of an accepted triple for keysym: mods the keys of its
\* mask, kb the seat's keyboard before
C16_Sequence(seq, keysym, mods, kb) ==
    /\ Len(seq) = 2 * Len(mods) + 5
    /\ seq[1] = SetKeyboard("virtual")
    /\ seq[2].op = "modifiers" /\ seq[2].mods \subseteq {"shift", "ctrl", "alt"}
    /\ \A i \in 1 .. Len(mods) :
          /\ seq[2 + i] = Key(mods[i].key, "pressed")
          /\ seq[Len(seq) - i] = Key(mods[i].key, "released")
    /\ seq[3 + Len(mods)].op = "key" /\ seq[3 + Len(mods)].state = "pressed"
    /\ seq[4 + Len(mods)] = Key(seq[3 + Len(mods)].code, "released")
    /\ \E i \in 1 .. Len(virtual_keymap) :
          /\ virtual_keymap[i].keycode = seq[3 + Len(mods)].code + 8
          /\ virtual_keymap[i].syms = << keysym >>
          /\ virtual_keymap[i].masks # << >>
          /\ virtual_keymap[i].masks[1] = seq[2].mods
    /\ seq[Len(seq)] = Modifiers(IF kb = "managed" THEN {"shift"} ELSE {})

\* what C16 asks of a part of a commit's log that holds a search; kb is the
\* seat's keyboard before the part
C16_Search(part, kb) ==
    (Len(part) >= 2 /\ part[2].op = "try_type_keysym") =>
       IF part[2].found
       THEN Len(part) >= 4
            /\ part[4].op = "modifiers"
            /\ C16_Sequence(SubSeq(part, 3, Len(part)), part[2].keysym,
                            ModifierKeys(part[4].mods), kb)
       ELSE /\ Ops(part, "modifiers") = << >>
            /\ Len(part) >= 3 => part[3].op \in {"keycode_from_ch", "set_keymap"}
            /\ Len(part) = 2 => KeyboardAfter(part, kb) = kb

(***************************************************************************)
(* C16: when the direct-type search accepts a triple, it emits: a modifier *)
(* notification with the mask of the triple, presses of the mask's         *)
(* modifier keys in the order shift, control, alt, press and release of    *)
(* the target key, releases of the modifier keys in reverse order, and a   *)
(* modifier notification with the modifiers the seat's keyboard had before *)
(* the sequence; when no triple qualifies the search emits nothing and     *)
(* leaves the seat's keyboard as it was.                                   *)
(***************************************************************************)
C16_DirectTypeSequence ==
    [][\A h \in Handles :
          MatchedCommit(h) =>
             /\ C16_Search(TextPart(log'), seat_keyboard)
             /\ C16_Search(ActionPart(log'),
                           KeyboardAfter(TextPart(log'), seat_keyboard))]_vars

\* BackSpace was just typed on its level behind shift, control and alt while
\* a managed keyboard with shift held was the seat's keyboard
C16_Witness ==
    /\ AfterMatchedCommit
    /\ Len(ActionPart(log)) = 13
    /\ ActionPart(log)[2] = Tried(XKB_KEY_BackSpace, TRUE)
    /\ ActionPart(log)[4] = Modifiers({"shift", "ctrl", "alt"})
    /\ ActionPart(log)[5] = Key(42, "pressed")
    /\ ActionPart(log)[8] = Key(6, "pressed")
    /\ ActionPart(log)[13] = Modifiers({"shift"})

\* the part is one of type_text or of perform_action on a table action that
\* neither typed directly nor installed a keymap: keymap synthesis failed
FailedPart(part) ==
    /\ part # << >>
    /\ part[1].op = "perform_action" => part[1].action \in 1 .. 5
    /\ ~DirectPart(part)
    /\ ~SentPart(part)

\* a part whose keymap synthesis failed sent no key and did not touch the
\* seat or a timer
C17_Abandoned(part) ==
    FailedPart(part) =>
       /\ Ops(part, "key") = << >>
       /\ Ops(part, "modifiers") = << >>
       /\ Ops(part, "set_keyboard") = << >>
       /\ Ops(part, "timer_update") = << >>

(***************************************************************************)
(* C17: when keymap synthesis fails during a commit, the type-text or      *)
(* perform-action step is abandoned: it emits no key event, installs no    *)
(* keymap (the one installed before stays) and leaves the seat's keyboard  *)
(* as it was; the commit clears the pending fields all the same.           *)
(***************************************************************************)
C17_SynthesisFailure ==
    [][\A h \in Handles :
          (MatchedCommit(h) /\ (FailedPart(TextPart(log')) \/ FailedPart(ActionPart(log')))) =>
             /\ C17_Abandoned(TextPart(log'))
             /\ C17_Abandoned(ActionPart(log'))
             /\ sessions'[h].pending =
                   [string |-> Null, action |-> GAMESCOPE_INPUT_METHOD_ACTION_NONE]
             /\ (\A part \in {TextPart(log'), ActionPart(log')} :
                    part = << >> \/ FailedPart(part)) =>
                   seat_keyboard' = seat_keyboard]_vars

\* synthesis just failed for a text, after its keycodes were allocated, and
\* for an action, with a managed keyboard the seat's keyboard
C17_Witness ==
    /\ AfterMatchedCommit
    /\ FailedPart(TextPart(log))
    /\ Ops(TextPart(log), "keycode_from_ch") # << >>
    /\ FailedPart(ActionPart(log))
    /\ seat_keyboard = "managed"
    /\ sessions[last.h].pending.string = Null

(***************************************************************************)
(* C18: whenever a handler has returned and the allocator queue of a       *)
(* session holds entries, the idle-reset timer of the session is armed.    *)
(***************************************************************************)
C18_ArmedWhileAllocated ==
    \A h \in DOMAIN sessions : sessions[h].keys # << >> => sessions[h].timer >= 0

\* the keycodes of a queue are pairwise distinct and none is an action's
C19_Distinct(keys) ==
    /\ \A i, j \in 1 .. Len(keys) : i # j => keys[i].keycode # keys[j].keycode
    /\ \A i \in 1 .. Len(keys) : keys[i].keycode \notin {28, 14, 111, 105, 106}

\* the keymap names each key once and binds every entry of the queue and
\* the five actions
C19_Complete(keymap, keys) ==
    /\ keymap.ok
    /\ Len(keymap.codes) = Len(keys) + 5
    /\ Len(keymap.symbols) = Len(keys) + 5
    /\ \A i, j \in 1 .. Len(keymap.codes) :
          i # j => /\ keymap.codes[i].name # keymap.codes[j].name
                   /\ keymap.codes[i].code # keymap.codes[j].code
                   /\ keymap.symbols[i].keycode # keymap.symbols[j].keycode
    /\ \A i \in 1 .. Len(keys) : Binds(keymap, keys[i].keycode, keys[i].keysym)
    /\ Binds(keymap, 28, 65293) /\ Binds(keymap, 14, 65288) /\ Binds(keymap, 111, 65535)
    /\ Binds(keymap, 105, 65361) /\ Binds(keymap, 106, 65363)

(***************************************************************************)
(* C19: after any sequence of allocations, evictions and idle resets the   *)
(* keycodes held in the allocator queue are pairwise distinct and none of  *)
(* them is an action's keycode, so that the keymap synthesized from the    *)
(* queue defines each key once and binds every queue entry and all five    *)
(* actions.                                                                *)
(***************************************************************************)
C19_KeymapWellFormed ==
    \A h \in DOMAIN sessions :
       /\ C19_Distinct(sessions[h].keys)
       /\ C19_Complete(generate_keymap(sessions[h], TRUE), sessions[h].keys)

\* the queue is full after evictions, its front entry is no longer the first
\* keycode of the catalog, and the keymap has 52 keys
C19_Witness ==
    /\ Len(sessions[1].keys) = 47
    /\ sessions[1].next_keycode_index > 48
    /\ sessions[1].keys[1].keycode # 2
    /\ sessions[1].keys[47].keycode = 3
    /\ Len(generate_keymap(sessions[1], TRUE).codes) = 52

(***************************************************************************)
(* C20: a request on a handle whose create was rejected is handled without *)
(* dereferencing the session the handle does not have.                     *)
(***************************************************************************)
C20_NoNullDereference == last.op # "null_dereference"
====
